---- MODULE Spec2Model ----
(***************************************************************************)
(* Compact bilinear pooling (src/compact_bilinear_pooling.py): the sketch  *)
(* matrix generator _generate_sketch_matrix and the pooling operator       *)
(* compact_bilinear_pooling_layer, with the numpy and tensorflow           *)
(* primitives they call.                                                   *)
(*                                                                         *)
(* Python values are tagged records: None, a Python int, a numpy ndarray   *)
(* (shape, dtype, flat row-major data), a dense Tensor (shape, rows), a    *)
(* SparseTensor (indices, values, dense_shape) and a raised exception.     *)
(* Real numbers are exact: tensor entries are integers, the entries of a   *)
(* Fourier transform are elements a + b*u of the ring Z[zeta_D], and the   *)
(* real part of an inverse transform is a reduced fraction <<num, den>>.   *)
(***************************************************************************)
EXTENDS Integers, Sequences, FiniteSets, TLC

VARIABLES
    rng,    \* the state of numpy's global generator (np.random)
    call,   \* the frame of the last call of compact_bilinear_pooling_layer
    probe,  \* the arguments of the call that is repeated
    ref,    \* the frame of the first call with the arguments probe
    sk,     \* the arguments and the result of _generate_sketch_matrix
    thr     \* the frames of the concurrent invocations

vars == <<rng, call, probe, ref, sk, thr>>

----------------------------------------------------------------------------
(* Bounds of the model.                                                    *)

\* the largest channel count of an input, and the longest rand_h / rand_s
MaxChannels == 2

\* the number of states of the model's pseudo-random generator
RngMod == 8

\* the values of output_dim: 0 is the invalid one, and for 1..4 the Fourier
\* transform is exact in Z[zeta_D]
OutputDims == {0, 1, 2, 3, 4}

\* the default seeds of compact_bilinear_pooling_layer's signature
DefaultSeedH1 == 1
DefaultSeedS1 == 3
DefaultSeedH2 == 5
DefaultSeedS2 == 7

----------------------------------------------------------------------------
(* Python and numpy values.                                                *)

None == [tag |-> "None"]

PyInt(v) == [tag |-> "int", val |-> v]

Raise(e) == [tag |-> "raise", error |-> e]

NdArray(shape, dtype, data) ==
    [tag |-> "ndarray", shape |-> shape, dtype |-> dtype, data |-> data]

\* a 1-dimensional int64 array, as np.array([...]) builds it
Array1D(data) == NdArray(<<Len(data)>>, "int64", data)

IsRaise(v) == v.tag = "raise"

\* a.astype(dtype): a new array of that dtype; a Python int has no astype
AsType(a, dtype) ==
    IF a.tag # "ndarray" THEN Raise("AttributeError")
    ELSE NdArray(a.shape, dtype, a.data)

Ndim(a) == Len(a.shape)

\* len(a): the first dimension
PyLen(a) == a.shape[1]

\* np.all(a >= 0), np.all(a < bound)
AllGeq(a, bound) == \A i \in 1..Len(a.data) : a.data[i] >= bound
AllLess(a, bound) == \A i \in 1..Len(a.data) : a.data[i] < bound

----------------------------------------------------------------------------
(* tf.sparse.SparseTensor and tf.sparse.reorder.                           *)

SparseTensor(indices, values, dense_shape) ==
    [tag |-> "SparseTensor", indices |-> indices, values |-> values,
     dense_shape |-> dense_shape]

\* row-major order of two indices <<row, column>>
IndexLess(a, b) == a[1] < b[1] \/ (a[1] = b[1] /\ a[2] < b[2])

RECURSIVE InsertEntry(_, _)
InsertEntry(e, es) ==
    IF es = <<>> THEN <<e>>
    ELSE IF IndexLess(e[1], Head(es)[1]) THEN <<e>> \o es
    ELSE <<Head(es)>> \o InsertEntry(e, Tail(es))

RECURSIVE SortEntries(_)
SortEntries(es) ==
    IF es = <<>> THEN <<>>
    ELSE InsertEntry(es[Len(es)], SortEntries(SubSeq(es, 1, Len(es) - 1)))

\* tf.sparse.reorder: the entries sorted into row-major order
SparseReorder(sp) ==
    LET es == SortEntries([i \in 1..Len(sp.indices) |-> <<sp.indices[i], sp.values[i]>>])
    IN SparseTensor([i \in 1..Len(es) |-> es[i][1]],
                    [i \in 1..Len(es) |-> es[i][2]], sp.dense_shape)

----------------------------------------------------------------------------
(* _generate_sketch_matrix                                                 *)

_generate_sketch_matrix(rand_h, rand_s, output_dim) ==
    LET h == AsType(rand_h, "int64")
        s == AsType(rand_s, "float32")
    IN  IF IsRaise(h) THEN h
        ELSE IF IsRaise(s) THEN s
        ELSE IF ~(Ndim(h) = 1 /\ Ndim(s) = 1 /\ PyLen(h) = PyLen(s))
            THEN Raise("AssertionError")
        ELSE IF ~(AllGeq(h, 0) /\ AllLess(h, output_dim))
            THEN Raise("AssertionError")
        ELSE LET input_dim == PyLen(h)
                 indices == [i \in 1..input_dim |-> <<i - 1, h.data[i]>>]
             IN SparseReorder(
                    SparseTensor(indices, s.data, <<input_dim, output_dim>>))

----------------------------------------------------------------------------
(* numpy's global generator: np.random.seed and np.random.randint.  The    *)
(* generator is a deterministic state machine: seed sets the state from    *)
(* the seed alone, every draw advances the state and reads it.             *)

RngStates == 0..(RngMod - 1)

\* np.random.seed(seed): the state depends on the seed only
SeedState(seed) == (seed * 7 + 1) % RngMod

\* one step of the generator
NextState(st) == (st * 5 + 3) % RngMod

\* k successive draws from [0, high)
RECURSIVE DrawInts(_, _, _)
DrawInts(st, high, k) ==
    IF k = 0 THEN [data |-> <<>>, rng |-> st]
    ELSE LET st1 == NextState(st)
             rest == DrawInts(st1, high, k - 1)
         IN [data |-> <<st1 % high>> \o rest.data, rng |-> rest.rng]

\* np.random.randint(high, size=size) on state st: the value and the new
\* state.  size=None draws one Python int; an empty range is an error unless
\* no sample is taken.
RandInt(st, high, size) ==
    IF size.tag = "int" /\ size.val = 0
        THEN [value |-> Array1D(<<>>), rng |-> st]
    ELSE IF high <= 0
        THEN [value |-> Raise("ValueError"), rng |-> st]
    ELSE IF size.tag = "None"
        THEN LET d == DrawInts(st, high, 1)
             IN [value |-> PyInt(d.data[1]), rng |-> d.rng]
    ELSE LET d == DrawInts(st, high, size.val)
         IN [value |-> Array1D(d.data), rng |-> d.rng]

\* 2*v - 1 for an array or a Python int
TwiceMinusOne(v) ==
    IF v.tag = "int" THEN PyInt(2 * v.val - 1)
    ELSE NdArray(v.shape, v.dtype, [i \in 1..Len(v.data) |-> 2 * v.data[i] - 1])

----------------------------------------------------------------------------
(* Dense tensors.  A tensor of rank r >= 2 is held as its rows over the    *)
(* last axis: shape <<d1, ..., dr>> and d1*...*d(r-1) rows of dr entries.  *)
(* UnknownDim is a dimension that is not statically known.                 *)

UnknownDim == -1

Tensor(shape, rows) == [tag |-> "Tensor", shape |-> shape, rows |-> rows]

RECURSIVE Product(_)
Product(s) == IF s = <<>> THEN 1 ELSE Head(s) * Product(Tail(s))

RECURSIVE Concat(_)
Concat(rows) == IF rows = <<>> THEN <<>> ELSE Head(rows) \o Concat(Tail(rows))

\* the flat sequence cut into rows of c entries
Regroup(flat, c) ==
    [n \in 1..(Len(flat) \div c) |-> SubSeq(flat, (n - 1) * c + 1, n * c)]

\* bottom.get_shape().as_list()[-1] : None when the dimension is unknown
LastStaticDim(t) ==
    IF t.shape[Len(t.shape)] = UnknownDim THEN None
    ELSE PyInt(t.shape[Len(t.shape)])

\* tf.reshape(t, [-1] + dims): the first dimension is inferred
TfReshape(t, dims) ==
    IF \E i \in 1..Len(dims) : dims[i].tag # "int"
        THEN Raise("TypeError")
    ELSE LET ds == [i \in 1..Len(dims) |-> dims[i].val]
             m == Product(ds)
             flat == Concat(t.rows)
         IN IF \E i \in 1..Len(ds) : ds[i] < 0
                THEN Raise("InvalidArgumentError")
            ELSE IF m = 0 \/ Len(flat) % m # 0
                THEN Raise("InvalidArgumentError")
            ELSE Tensor(<<Len(flat) \div m>> \o ds, Regroup(flat, ds[Len(ds)]))

\* tf.transpose of a matrix given as rows, with r rows and c columns
Transpose(rows, r, c) == [j \in 1..c |-> [i \in 1..r |-> rows[i][j]]]

\* the sum, over the entries of the sparse matrix at column k, of
\* value * x[row]
RECURSIVE ScatterSum(_, _, _, _)
ScatterSum(indices, values, k, x) ==
    IF indices = <<>> THEN 0
    ELSE (IF Head(indices)[2] = k THEN Head(values) * x[Head(indices)[1] + 1] ELSE 0)
         + ScatterSum(Tail(indices), Tail(values), k, x)

\* tf.transpose(tf.sparse.sparse_dense_matmul(sp, flat, adjoint_a=True,
\* adjoint_b=True)): (sp^T flat^T)^T, of shape [N, output_dim]
SketchProject(sp, flat) ==
    IF sp.dense_shape[1] # flat.shape[2] THEN Raise("InvalidArgumentError")
    ELSE LET N == flat.shape[1]
             D == sp.dense_shape[2]
             prod == [k \in 1..D |-> [n \in 1..N |->
                         ScatterSum(sp.indices, sp.values, k - 1, flat.rows[n])]]
         IN Tensor(<<N, D>>, Transpose(prod, D, N))

----------------------------------------------------------------------------
(* Complex numbers and the discrete Fourier transform of length D, exact   *)
(* in Z[zeta_D] for D in 1..4: an element is <<a, b>> = a + b*u with u = i *)
(* (D = 4) or u = the cube root of unity w (D = 3); for D = 1, 2 the roots *)
(* of unity are 1 and -1.                                                  *)

\* u*u
USquared(D) == IF D = 3 THEN <<-1, -1>> ELSE <<-1, 0>>

CAdd(x, y) == <<x[1] + y[1], x[2] + y[2]>>

CMul(D, x, y) ==
    <<x[1] * y[1] + x[2] * y[2] * USquared(D)[1],
      x[1] * y[2] + x[2] * y[1] + x[2] * y[2] * USquared(D)[2]>>

\* exp(2 pi i / D)
Zeta(D) == IF D = 1 THEN <<1, 0>> ELSE IF D = 2 THEN <<-1, 0>> ELSE <<0, 1>>

RECURSIVE ZetaPow(_, _)
ZetaPow(D, k) == IF k = 0 THEN <<1, 0>> ELSE CMul(D, Zeta(D), ZetaPow(D, k - 1))

RECURSIVE CSum(_)
CSum(zs) == IF zs = <<>> THEN <<0, 0>> ELSE CAdd(Head(zs), CSum(Tail(zs)))

\* tf.complex(real=t, imag=tf.zeros_like(t))
TfComplex(t) ==
    Tensor(t.shape, [n \in 1..Len(t.rows) |->
                        [k \in 1..Len(t.rows[n]) |-> <<t.rows[n][k], 0>>]])

\* X[k] = sum_n x[n] zeta^(-k n)
DftRow(D, x) ==
    [k \in 1..D |-> CSum([n \in 1..D |->
        CMul(D, x[n], ZetaPow(D, (D - (((k - 1) * (n - 1)) % D)) % D))])]

\* D * x[n] = sum_k X[k] zeta^(k n)
InverseDftRow(D, X) ==
    [n \in 1..D |-> CSum([k \in 1..D |->
        CMul(D, X[k], ZetaPow(D, ((k - 1) * (n - 1)) % D))])]

\* tf.signal.fft over the last axis
TfFft(t) ==
    Tensor(t.shape, [n \in 1..Len(t.rows) |-> DftRow(t.shape[2], t.rows[n])])

\* tf.signal.ifft over the last axis: entries <<z, D>> standing for z / D
TfIfft(t) ==
    Tensor(t.shape, [n \in 1..Len(t.rows) |->
        [k \in 1..t.shape[2] |->
            <<InverseDftRow(t.shape[2], t.rows[n])[k], t.shape[2]>>]])

RECURSIVE Gcd(_, _)
Gcd(a, b) == IF b = 0 THEN a ELSE Gcd(b, a % b)

Abs(a) == IF a < 0 THEN -a ELSE a

\* the fraction num/den (den > 0) in lowest terms
Fraction(num, den) ==
    LET g == Gcd(Abs(num), den) IN <<num \div g, den \div g>>

\* tf.math.real of the entries z / D: Re(a + b*u) is a for u = i and
\* a - b/2 for u = w
TfReal(t) ==
    LET D == t.shape[2]
        re(e) == IF D = 3 THEN Fraction(2 * e[1][1] - e[1][2], 2 * e[2])
                 ELSE Fraction(e[1][1], e[2])
    IN Tensor(t.shape, [n \in 1..Len(t.rows) |->
                           [k \in 1..D |-> re(t.rows[n][k])]])

\* tf.multiply of two [N, D] complex tensors, broadcasting a first
\* dimension of 1; None is no tensor
TfMultiply(a, b) ==
    IF a.tag # "Tensor" \/ b.tag # "Tensor" THEN Raise("ValueError")
    ELSE LET Na == a.shape[1]
             Nb == b.shape[1]
             D == a.shape[2]
             N == IF Na >= Nb THEN Na ELSE Nb
         IN IF Na # Nb /\ Na # 1 /\ Nb # 1 THEN Raise("InvalidArgumentError")
            ELSE Tensor(<<N, D>>, [n \in 1..N |-> [k \in 1..D |->
                     CMul(D, a.rows[IF Na = 1 THEN 1 ELSE n][k],
                             b.rows[IF Nb = 1 THEN 1 ELSE n][k])]])

_fft(bottom, sequential) == IF sequential THEN None ELSE TfFft(bottom)

\* a variant of _ifft that applies the forward transform (the exponent's
\* sign is not flipped)
IfftWithForwardSign(bottom, sequential) ==
    IF sequential THEN None
    ELSE Tensor(bottom.shape, [n \in 1..Len(bottom.rows) |->
            [k \in 1..bottom.shape[2] |->
                <<DftRow(bottom.shape[2], bottom.rows[n])[k], bottom.shape[2]>>]])

_ifft(bottom, sequential) == IF sequential THEN None ELSE TfIfft(bottom)

----------------------------------------------------------------------------
(* compact_bilinear_pooling_layer, statement by statement.  A frame holds  *)
(* the caller's arguments (args), the local bindings (loc), the global     *)
(* generator state the call reads and writes (rng; rng0 is its value at    *)
(* entry), the number of lines written to stdout (printed), the statements *)
(* executed so far (done) and how the call ended (status, error).          *)

Locals ==
    [input_dim1 |-> None, input_dim2 |-> None,
     rand_h_1 |-> None, rand_s_1 |-> None, rand_h_2 |-> None, rand_s_2 |-> None,
     sparse_sketch_matrix1 |-> None, sparse_sketch_matrix2 |-> None,
     bottom1_flat |-> None, bottom2_flat |-> None,
     sketch1 |-> None, sketch2 |-> None, fft1 |-> None, fft2 |-> None,
     fft_product |-> None, cbp_flat |-> None, cbp |-> None]

Frame(args, g) ==
    [status |-> "running", error |-> "", pc |-> 1, done |-> <<>>,
     rng |-> g, rng0 |-> g, printed |-> 0, args |-> args, loc |-> Locals]

\* the statements in program order
Program ==
    <<"dims",
      "seed_h_1", "draw_h_1", "seed_s_1", "draw_s_1", "sketch_matrix1",
      "seed_h_2", "draw_h_2", "seed_s_2", "draw_s_2", "sketch_matrix2",
      "flatten1", "flatten2", "print", "project1", "project2",
      "fft1", "fft2", "multiply", "ifft", "reshape", "return">>

\* name = value: the statement completes and binds the local, or raises
Bind(f, name, local, value) ==
    IF IsRaise(value)
        THEN [f EXCEPT !.status = "raised", !.error = value.error]
    ELSE [f EXCEPT !.loc[local] = value, !.done = Append(@, name)]

\* a variant of SeedStep that leaves the generator as it is (the seed reset
\* is missing)
SeedStepWithoutReset(f, name, local, seed) ==
    IF f.loc[local].tag # "None" THEN f
    ELSE [f EXCEPT !.done = Append(@, name)]

\* if rand is None: np.random.seed(seed)
SeedStep(f, name, local, seed) ==
    IF f.loc[local].tag # "None" THEN f
    ELSE [f EXCEPT !.rng = SeedState(seed), !.done = Append(@, name)]

\* (still inside the if) rand_h = np.random.randint(output_dim, size=input_dim)
DrawHStep(f, name, local, size) ==
    IF f.loc[local].tag # "None" THEN f
    ELSE LET r == RandInt(f.rng, f.args.output_dim, size)
         IN Bind([f EXCEPT !.rng = r.rng], name, local, r.value)

\* (still inside the if) rand_s = 2*np.random.randint(2, size=input_dim) - 1
DrawSStep(f, name, local, size) ==
    IF f.loc[local].tag # "None" THEN f
    ELSE LET r == RandInt(f.rng, 2, size)
         IN Bind([f EXCEPT !.rng = r.rng], name, local,
                 IF IsRaise(r.value) THEN r.value ELSE TwiceMinusOne(r.value))

\* bottom1.get_shape()[i] as a reshape dimension
StaticDim(t, i) == IF t.shape[i] = UnknownDim THEN None ELSE PyInt(t.shape[i])

Step(f, name) ==
    CASE name = "dims" ->
            [f EXCEPT !.loc.input_dim1 = LastStaticDim(f.args.bottom1),
                      !.loc.input_dim2 = LastStaticDim(f.args.bottom2),
                      !.loc.rand_h_1 = f.args.rand_h_1,
                      !.loc.rand_s_1 = f.args.rand_s_1,
                      !.loc.rand_h_2 = f.args.rand_h_2,
                      !.loc.rand_s_2 = f.args.rand_s_2]
      [] name = "seed_h_1" -> SeedStep(f, name, "rand_h_1", f.args.seed_h_1)
      [] name = "draw_h_1" -> DrawHStep(f, name, "rand_h_1", f.loc.input_dim1)
      [] name = "seed_s_1" -> SeedStep(f, name, "rand_s_1", f.args.seed_s_1)
      [] name = "draw_s_1" -> DrawSStep(f, name, "rand_s_1", f.loc.input_dim1)
      [] name = "sketch_matrix1" ->
            Bind(f, name, "sparse_sketch_matrix1",
                 _generate_sketch_matrix(f.loc.rand_h_1, f.loc.rand_s_1,
                                         f.args.output_dim))
      [] name = "seed_h_2" -> SeedStep(f, name, "rand_h_2", f.args.seed_h_2)
      [] name = "draw_h_2" -> DrawHStep(f, name, "rand_h_2", f.loc.input_dim2)
      [] name = "seed_s_2" -> SeedStep(f, name, "rand_s_2", f.args.seed_s_2)
      [] name = "draw_s_2" -> DrawSStep(f, name, "rand_s_2", f.loc.input_dim2)
      [] name = "sketch_matrix2" ->
            Bind(f, name, "sparse_sketch_matrix2",
                 _generate_sketch_matrix(f.loc.rand_h_2, f.loc.rand_s_2,
                                         f.args.output_dim))
      [] name = "flatten1" ->
            Bind(f, name, "bottom1_flat",
                 TfReshape(f.args.bottom1, <<f.loc.input_dim1>>))
      [] name = "flatten2" ->
            Bind(f, name, "bottom2_flat",
                 TfReshape(f.args.bottom2, <<f.loc.input_dim2>>))
      [] name = "print" ->
            [f EXCEPT !.printed = @ + 1, !.done = Append(@, name)]
      [] name = "project1" ->
            Bind(f, name, "sketch1",
                 SketchProject(f.loc.sparse_sketch_matrix1, f.loc.bottom1_flat))
      [] name = "project2" ->
            Bind(f, name, "sketch2",
                 SketchProject(f.loc.sparse_sketch_matrix2, f.loc.bottom2_flat))
      [] name = "fft1" ->
            Bind(f, name, "fft1", _fft(TfComplex(f.loc.sketch1), f.args.sequential))
      [] name = "fft2" ->
            Bind(f, name, "fft2", _fft(TfComplex(f.loc.sketch2), f.args.sequential))
      [] name = "multiply" ->
            Bind(f, name, "fft_product", TfMultiply(f.loc.fft1, f.loc.fft2))
      [] name = "ifft" ->
            LET r == _ifft(f.loc.fft_product, f.args.sequential)
            IN Bind(f, name, "cbp_flat",
                    IF r.tag # "Tensor" THEN Raise("ValueError") ELSE TfReal(r))
      [] name = "reshape" ->
            Bind(f, name, "cbp",
                 TfReshape(f.loc.cbp_flat,
                           <<StaticDim(f.args.bottom1, 2),
                             StaticDim(f.args.bottom1, 3),
                             StaticDim(f.args.bottom1, 4)>>))
      [] name = "return" -> [f EXCEPT !.status = "returned"]

\* the next statement of a running frame
StepFrame(f) == [Step(f, Program[f.pc]) EXCEPT !.pc = @ + 1]

RECURSIVE Run(_)
Run(f) == IF f.status # "running" THEN f ELSE Run(StepFrame(f))

\* the whole call, entered with the global generator in state g
compact_bilinear_pooling_layer(args, g) == Run(Frame(args, g))

----------------------------------------------------------------------------
(* Inputs.                                                                 *)

\* the sequences over S of length at most n
SeqsUpTo(S, n) == UNION {[1..k -> S] : k \in 0..n}

\* batch, height and width of the inputs
Shapes == {<<1, 1, 1>>, <<2, 1, 1>>, <<1, 2, 1>>, <<2, 2, 1>>}

\* a [b, h, w, c] tensor whose n-th row (n = 1..b*h*w) is n * base
InputTensor(bhw, base) ==
    Tensor(bhw \o <<Len(base)>>,
           [n \in 1..Product(bhw) |-> [i \in 1..Len(base) |-> n * base[i]]])

\* a tensor whose channel dimension is not statically known
UnknownChannelsTensor(bhw) == Tensor(bhw \o <<UnknownDim>>, <<>>)

Ones(c) == [i \in 1..c |-> 1]

Zeros(c) == [i \in 1..c |-> 0]

\* the tensors of every shape: unknown, zero and positive channel counts
ShapeTensors ==
    {UnknownChannelsTensor(bhw) : bhw \in Shapes}
    \cup {InputTensor(bhw, Ones(c)) : bhw \in Shapes, c \in 0..MaxChannels}

\* the first rows of the inputs whose values matter: all zero, or over -1, 2
Bases ==
    {Zeros(c) : c \in 1..MaxChannels}
    \cup (SeqsUpTo({-1, 2}, MaxChannels) \ {<<>>})

Args(b1, b2, D, h1, s1, h2, s2, seeds, seq) ==
    [bottom1 |-> b1, bottom2 |-> b2, output_dim |-> D,
     rand_h_1 |-> h1, rand_s_1 |-> s1, rand_h_2 |-> h2, rand_s_2 |-> s2,
     seed_h_1 |-> seeds[1], seed_s_1 |-> seeds[2],
     seed_h_2 |-> seeds[3], seed_s_2 |-> seeds[4], sequential |-> seq]

DefaultSeeds == <<DefaultSeedH1, DefaultSeedS1, DefaultSeedH2, DefaultSeedS2>>

\* caller-supplied 1-dimensional arrays for the first stream
ExplicitH == {Array1D(d) : d \in SeqsUpTo({0, 1}, MaxChannels) \ {<<>>}}
ExplicitS ==
    {Array1D([i \in 1..k |-> -1]) : k \in 1..MaxChannels}
    \cup {Array1D([i \in 1..k |-> IF i % 2 = 1 THEN 1 ELSE -1]) : k \in 1..MaxChannels}

\* caller-supplied arrays for the second stream (of one channel): none, a
\* valid pair, a pair with a bucket index out of range, a pair with a sign
\* that is no sign
ExplicitSecond ==
    {<<None, None>>,
     <<Array1D(<<0>>), Array1D(<<-1>>)>>,
     <<Array1D(<<7>>), Array1D(<<1>>)>>,
     <<Array1D(<<0>>), Array1D(<<2>>)>>}

----------------------------------------------------------------------------
(* Spec: the calls of compact_bilinear_pooling_layer, one at a time, from  *)
(* any state of the global generator.                                      *)

Unused == None

Init ==
    /\ rng \in RngStates
    /\ call = None
    /\ probe = Unused /\ ref = Unused /\ sk = Unused /\ thr = Unused

\* inputs of every shape, the sketches derived from the default seeds
CallShapes ==
    \E b1 \in ShapeTensors, b2 \in ShapeTensors, D \in OutputDims, seq \in BOOLEAN :
        /\ call = None
        /\ call' = compact_bilinear_pooling_layer(
                       Args(b1, b2, D, None, None, None, None, DefaultSeeds, seq), rng)
        /\ rng' = call'.rng
        /\ UNCHANGED <<probe, ref, sk, thr>>

\* inputs of equal batch, height and width, with every first row of Bases
CallValues ==
    \E bhw \in {<<1, 1, 1>>, <<2, 1, 1>>}, D \in OutputDims \ {0},
       base1 \in Bases, base2 \in Bases :
        /\ call = None
        /\ call' = compact_bilinear_pooling_layer(
                       Args(InputTensor(bhw, base1), InputTensor(bhw, base2), D,
                            None, None, None, None, DefaultSeeds, FALSE), rng)
        /\ rng' = call'.rng
        /\ UNCHANGED <<probe, ref, sk, thr>>

\* caller-supplied sketch arrays
CallExplicit ==
    \E c1 \in 1..MaxChannels, D \in {2, 3},
       h1 \in ExplicitH \cup {None}, s1 \in ExplicitS \cup {None},
       hs2 \in ExplicitSecond :
        /\ call = None
        /\ call' = compact_bilinear_pooling_layer(
                       Args(InputTensor(<<1, 1, 1>>, Ones(c1)),
                            InputTensor(<<1, 1, 1>>, Ones(1)), D,
                            h1, s1, hs2[1], hs2[2], DefaultSeeds, FALSE), rng)
        /\ rng' = call'.rng
        /\ UNCHANGED <<probe, ref, sk, thr>>

\* the caller drops the result
Release ==
    /\ call # None
    /\ call' = None
    /\ UNCHANGED <<rng, probe, ref, sk, thr>>

Next == CallExplicit \/ CallValues \/ CallShapes \/ Release

Spec == Init /\ [][Next]_vars

----------------------------------------------------------------------------
(* SpecSketch: _generate_sketch_matrix applied to every input.             *)

\* rand_h: 1-dimensional arrays, a 2-dimensional one and a 0-dimensional one
SketchIndexArrays ==
    {Array1D(d) : d \in SeqsUpTo(-1..2, MaxChannels)}
    \cup {NdArray(<<1, 1>>, "int64", <<0>>), NdArray(<<>>, "int64", <<0>>)}

\* rand_s likewise, over the signs and two values that are no signs
SketchSignArrays ==
    {Array1D(d) : d \in SeqsUpTo({-1, 0, 1, 2}, MaxChannels)}
    \cup {NdArray(<<1, 1>>, "int64", <<1>>), NdArray(<<>>, "int64", <<1>>)}

SketchDims == {0, 1, 2, 3}

InitSketch ==
    /\ sk \in [rand_h : SketchIndexArrays, rand_s : SketchSignArrays,
               output_dim : SketchDims, ret : {None}]
    /\ rng = Unused /\ call = Unused /\ probe = Unused /\ ref = Unused
    /\ thr = Unused

Generate ==
    /\ sk.ret = None
    /\ sk' = [sk EXCEPT !.ret = _generate_sketch_matrix(sk.rand_h, sk.rand_s,
                                                        sk.output_dim)]
    /\ UNCHANGED <<rng, call, probe, ref, thr>>

NextSketch == Generate

SpecSketch == InitSketch /\ [][NextSketch]_vars

----------------------------------------------------------------------------
(* SpecRepeat: one call repeated, with other calls and other uses of the   *)
(* global generator in between.                                            *)

SeedChoices == {DefaultSeeds, <<7, 5, 3, 1>>, <<1, 1, 1, 1>>}

ProbeArgs ==
    {Args(InputTensor(<<2, 1, 1>>, Ones(c)), InputTensor(<<2, 1, 1>>, Ones(c)),
          D, None, None, None, None, seeds, FALSE) :
        c \in 1..MaxChannels, D \in {0, 2, 3}, seeds \in SeedChoices}

\* the calls made in between
OtherArgs ==
    {Args(InputTensor(<<1, 1, 1>>, Ones(1)), InputTensor(<<1, 1, 1>>, Ones(1)),
          2, None, None, None, None, seeds, FALSE) : seeds \in SeedChoices}

InitRepeat ==
    /\ rng \in RngStates
    /\ probe \in ProbeArgs
    /\ ref = None /\ call = None
    /\ sk = Unused /\ thr = Unused

\* the call with the arguments probe
CallProbe ==
    /\ call' = compact_bilinear_pooling_layer(probe, rng)
    /\ ref' = IF ref = None THEN call' ELSE ref
    /\ rng' = call'.rng
    /\ UNCHANGED <<probe, sk, thr>>

\* a call with other arguments
CallOther ==
    \E a \in OtherArgs :
        /\ rng' = compact_bilinear_pooling_layer(a, rng).rng
        /\ UNCHANGED <<call, probe, ref, sk, thr>>

\* any other use of np.random
Perturb ==
    /\ rng' \in RngStates
    /\ UNCHANGED <<call, probe, ref, sk, thr>>

NextRepeat == CallProbe \/ CallOther \/ Perturb

SpecRepeat == InitRepeat /\ [][NextRepeat]_vars

----------------------------------------------------------------------------
(* SpecConc: two invocations run concurrently.  The statements up to the   *)
(* second sketch matrix run one at a time (np.random.seed and              *)
(* np.random.randint are each atomic); the rest of a call touches no       *)
(* shared state and runs as one step.                                      *)

Threads == {1, 2}

ConcArgs ==
    {Args(InputTensor(<<1, 1, 1>>, Ones(c)), InputTensor(<<1, 1, 1>>, Ones(c)),
          c, None, None, None, None, seeds, FALSE) :
        c \in 1..MaxChannels, seeds \in SeedChoices}

\* the position of "sketch_matrix2" in Program
LastSharedStep == CHOOSE i \in 1..Len(Program) : Program[i] = "sketch_matrix2"

InitConc ==
    /\ rng \in RngStates
    /\ thr \in [Threads -> {Frame(a, 0) : a \in ConcArgs}]
    /\ call = Unused /\ probe = Unused /\ ref = Unused /\ sk = Unused

\* one statement of invocation t, on the global generator
Statement(t) ==
    /\ thr[t].status = "running"
    /\ thr[t].pc <= LastSharedStep
    /\ LET f == StepFrame([thr[t] EXCEPT !.rng = rng])
       IN /\ rng' = f.rng
          /\ thr' = [thr EXCEPT ![t] = [f EXCEPT !.rng = 0]]
    /\ UNCHANGED <<call, probe, ref, sk>>

\* the rest of invocation t
Finish(t) ==
    /\ thr[t].status = "running"
    /\ thr[t].pc > LastSharedStep
    /\ LET f == Run([thr[t] EXCEPT !.rng = rng])
       IN /\ rng' = f.rng
          /\ thr' = [thr EXCEPT ![t] = [f EXCEPT !.rng = 0]]
    /\ UNCHANGED <<call, probe, ref, sk>>

NextConc == \E t \in Threads : Statement(t) \/ Finish(t)

SpecConc == InitConc /\ [][NextConc]_vars

----------------------------------------------------------------------------
(* The claims.                                                             *)

BHW(t) == SubSeq(t.shape, 1, 3)

Channels(t) == t.shape[4]

\* the arrays a call derived or was given, and what it returned
DerivedArrays(f) ==
    <<f.loc.rand_h_1, f.loc.rand_s_1, f.loc.rand_h_2, f.loc.rand_s_2>>

Observed(f) ==
    [status |-> f.status, error |-> f.error, arrays |-> DerivedArrays(f),
     cbp |-> f.loc.cbp]

\* the call is within the documented domain: inputs of equal batch, height
\* and width, positive channel counts and output_dim, nothing else supplied
PlainValidCall(a) ==
    /\ BHW(a.bottom1) = BHW(a.bottom2)
    /\ Channels(a.bottom1) >= 1 /\ Channels(a.bottom2) >= 1
    /\ a.output_dim >= 1
    /\ a.rand_h_1 = None /\ a.rand_s_1 = None
    /\ a.rand_h_2 = None /\ a.rand_s_2 = None
    /\ ~a.sequential

\* C1: every call with inputs [B,H,W,C1], [B,H,W,C2] and output_dim = D, all
\* at least 1, returns a tensor of shape exactly [B,H,W,D].
C1_OutputShape ==
    (call # None /\ PlainValidCall(call.args)) =>
        /\ call.status = "returned"
        /\ call.loc.cbp.shape = BHW(call.args.bottom1) \o <<call.args.output_dim>>

\* C2: with sequential=True the call ends as the call with sequential=False
\* on the same inputs and sketches does, with the same output.
C2_SequentialEquivalent ==
    (call # None /\ call.args.sequential) =>
        LET batched == compact_bilinear_pooling_layer(
                           [call.args EXCEPT !.sequential = FALSE], call.rng0)
        IN /\ call.status = batched.status
           /\ call.loc.cbp = batched.loc.cbp

\* C3: a call with fixed seeds, output_dim, channel counts and inputs derives
\* the same bucket and sign arrays and ends with the same output as the first
\* such call, whatever the state of the global generator and whatever calls
\* ran in between.
C3_RepeatedCallsAgree ==
    (ref # None /\ call # None) => Observed(call) = Observed(ref)

\* C3 witness: the call was repeated from another state of the global
\* generator than the first one, derived its arrays and returned.
C3_Witness ==
    /\ ref # None /\ call # None
    /\ call.rng0 # ref.rng0
    /\ call.status = "returned"
    /\ Len(call.loc.rand_h_1.data) >= 2

\* the preconditions of _generate_sketch_matrix
SketchPreconditions(h, s, D) ==
    /\ Ndim(h) = 1 /\ Ndim(s) = 1
    /\ PyLen(h) = PyLen(s)
    /\ \A i \in 1..Len(h.data) : h.data[i] >= 0 /\ h.data[i] < D
    /\ \A i \in 1..Len(s.data) : s.data[i] \in {1, -1}

\* C4: _generate_sketch_matrix raises, and returns no matrix, whenever
\* rand_h or rand_s is not 1-dimensional, their lengths differ, a bucket
\* index is outside [0, output_dim) or a sign is neither +1 nor -1.
C4_RejectsInvalid ==
    (sk.ret # None /\ ~SketchPreconditions(sk.rand_h, sk.rand_s, sk.output_dim))
        => IsRaise(sk.ret)

\* a precondition of the pooling operator is violated
InvalidCall(a) ==
    \/ Channels(a.bottom1) = UnknownDim \/ Channels(a.bottom1) <= 0
    \/ Channels(a.bottom2) = UnknownDim \/ Channels(a.bottom2) <= 0
    \/ a.output_dim <= 0
    \/ BHW(a.bottom1) # BHW(a.bottom2)

\* C5: the call raises, and returns no tensor, when a channel dimension is
\* unknown or not positive, when output_dim <= 0, or when the inputs differ
\* in batch, height or width.
C5_RejectsInvalidCall ==
    (call # None /\ InvalidCall(call.args)) => call.status = "raised"

\* the statements that compute: random draws, sketch matrices, flattening,
\* projection and everything after
ComputeSteps ==
    {Program[i] : i \in 1..Len(Program)}
        \ {"dims", "seed_h_1", "seed_s_1", "seed_h_2", "seed_s_2", "print", "return"}

\* the statement that raised
FailedStep(f) == Program[f.pc - 1]

\* the call ended in the failure of a precondition: the error comes from a
\* statement that fails on bad inputs only (a draw from [0, output_dim), the
\* checks of a sketch matrix, the flattening over the channel dimension), or
\* from the product of two streams whose positions differ
PreconditionFailure(f) ==
    /\ f.status = "raised"
    /\ \/ FailedStep(f) \in {"draw_h_1", "draw_s_1", "sketch_matrix1",
                             "draw_h_2", "draw_s_2", "sketch_matrix2",
                             "flatten1", "flatten2"}
       \/ /\ BHW(f.args.bottom1) # BHW(f.args.bottom2)
          /\ ~f.args.sequential
          /\ FailedStep(f) = "multiply"

\* C6: when a call ends in a precondition failure, nothing has been computed
\* at the moment the error is raised: no random draw, no sketch matrix of
\* either stream, no flattening or projection.
C6_FailFast ==
    (call # None /\ PreconditionFailure(call))
        => \A i \in 1..Len(call.done) : call.done[i] \notin ComputeSteps

\* C7: under every interleaving, an invocation that returned derived the
\* bucket and sign arrays it derives when run alone.
C7_ConcurrentAsAlone ==
    \A t \in Threads :
        thr[t].status = "returned" =>
            DerivedArrays(thr[t])
                = DerivedArrays(compact_bilinear_pooling_layer(thr[t].args, 0))

\* C8: after a call, returned or raised, the process-wide state is what it
\* was before: the global generator is in its state at entry and nothing
\* was written to stdout.
C8_NoSideEffect ==
    call # None => (call.rng = call.rng0 /\ rng = call.rng0 /\ call.printed = 0)

\* C9: a matrix _generate_sketch_matrix returns has shape [len(rand_h),
\* output_dim] and one entry per row i, at column rand_h[i] with value
\* rand_s[i]; every value is +1 or -1 and the entries are in row-major order.
C9_SketchMatrix ==
    (sk.ret # None /\ ~IsRaise(sk.ret)) =>
        LET n == Len(sk.rand_h.data) IN
        /\ sk.ret.dense_shape = <<n, sk.output_dim>>
        /\ Len(sk.ret.indices) = n /\ Len(sk.ret.values) = n
        /\ \A i \in 1..n :
            /\ sk.ret.indices[i] = <<i - 1, sk.rand_h.data[i]>>
            /\ sk.ret.values[i] = sk.rand_s.data[i]
            /\ sk.ret.values[i] \in {1, -1}
        /\ \A i \in 1..n, j \in 1..n :
            i < j => IndexLess(sk.ret.indices[i], sk.ret.indices[j])

RECURSIVE SeqSum(_)
SeqSum(xs) == IF xs = <<>> THEN 0 ELSE Head(xs) + SeqSum(Tail(xs))

\* the count sketch of the vector x: bucket k (from 0) holds the sum of
\* s[i] * x[i] over the channels i with h[i] = k
CountSketch(h, s, x, D) ==
    [k \in 1..D |-> SeqSum([i \in 1..Len(x) |->
                        IF h[i] = k - 1 THEN s[i] * x[i] ELSE 0])]

\* the circular convolution of length D
CircularConvolution(a, b, D) ==
    [k \in 1..D |-> SeqSum([j \in 1..D |->
                        a[j] * b[(((k - 1) - (j - 1) + D) % D) + 1]])]

====
